---- MODULE Spec2Model ----
(***************************************************************************)
(* Model of src/backend/routers/activities.py: the activity roster         *)
(* (signup / unregister), the announcement CRUD handlers and the activity  *)
(* listing filter.  The document store is MongoDB as driven by the calls   *)
(* the handlers make (find_one, update_one with $push / $pull / $set,      *)
(* insert_one, delete_one).                                                *)
(***************************************************************************)
EXTENDS Integers, Sequences, FiniteSets, TLC

VARIABLES
    participants,   \* activities_collection: activity _id -> participants list
    pc,             \* per worker: "idle", or "update" (between find_one and update_one)
    req,            \* per worker: the arguments and locals of the request it is handling
    reply,          \* the request handled by the last step and its HTTP status (0: none yet)
    touched,        \* history: per worker, the last modification another request made to
                    \* the activity since this worker's find_one (NoWrite: none)
    lastWrite,      \* history: per activity, the last modification applied to it
    expected,       \* history: per activity, initial emails plus signed up minus unregistered
    announcements,  \* announcements_collection: a set of documents
    nextOid,        \* the ObjectId the store generates next
    updating,       \* per announcement_id: the update_announcement requests that are
                    \* between their update_one and their find_one
    resp,           \* the last announcement request and its response (status 0: the
                    \* request has not answered yet)
    catalog,        \* activities_collection as list_activities reads it: the full
                    \* documents in the order find({}) returns them
    listed          \* the last list_activities query and its result

rosterVars == <<participants, pc, req, reply, touched, lastWrite, expected>>
annVars == <<announcements, nextOid, updating, resp>>
listVars == <<catalog, listed>>
vars == <<participants, pc, req, reply, touched, lastWrite, expected,
          announcements, nextOid, updating, resp, catalog, listed>>

(***************************************************************************)
(* Bounds of the model.                                                    *)
(***************************************************************************)
\* Number of requests the server handles at the same time.
NProcs == 2
\* Number of announcements created in one run.
MaxCreates == 1

(***************************************************************************)
(* Values.                                                                 *)
(***************************************************************************)
\* Python's None for an Optional[str] argument that was not supplied.
None == "<None>"

\* teachers_collection: the _id values of the teacher records.
Teachers == {"mrodriguez"}

\* Values a caller may pass as teacher_username / username.
Usernames == {None, "", "mrodriguez", "intruder"}

\* The _id values of the seeded activity documents.
Activities == {"Chess Club", "Art Club"}

\* Values callers pass as activity_name: a stored activity and a missing one.
ActivityNames == {"Chess Club", "Robotics"}

Emails == {"amy@mergington.edu", "ben@mergington.edu"}

Procs == 1..NProcs

Range(s) == {s[i] : i \in DOMAIN s}

\* Participants lists the store is seeded with (no duplicates).
InitialRosters ==
    {<<>>, <<"amy@mergington.edu">>, <<"amy@mergington.edu", "ben@mergington.edu">>}

(***************************************************************************)
(* signup_for_activity / unregister_from_activity                          *)
(***************************************************************************)
\* `if not teacher_username` (None and the empty string are falsy).
NotTeacherUsername(t) == t \in {None, ""}

\* teachers_collection.find_one({"_id": username}) is not None
FindTeacher(t) == t \in Teachers

\* is_authenticated(username)
is_authenticated(username) == FindTeacher(username)

\* activities_collection.find_one({"_id": activity_name}) found a document
FindActivity(name) == name \in DOMAIN participants

AlreadySignedUpSkipped(email, seen) == FALSE
\* `if email in activity["participants"]`
AlreadySignedUp(email, seen) == email \in Range(seen)

NotRegisteredSkipped(email, seen) == FALSE
\* `if email not in activity["participants"]`
NotRegistered(email, seen) == email \notin Range(seen)

SetInsteadOfPush(current, email) == <<email>>
\* update_one({"_id": name}, {"$push": {"participants": email}}): one atomic
\* append to the stored list.
Push(current, email) == Append(current, email)

PullNothing(current, email) == current
\* update_one({"_id": name}, {"$pull": {"participants": email}}): removes
\* every occurrence of email from the stored list.
Pull(current, email) == SelectSeq(current, LAMBDA x : x # email)

\* result.modified_count of an update_one that turned `before` into `after`.
ModifiedCount(before, after) == IF before = after THEN 0 ELSE 1

NoWrite == [op |-> "none", email |-> ""]

NoRequest ==
    [op |-> "none", activity |-> "", email |-> "", teacher |-> ""]

NoReply ==
    [op |-> "none", activity |-> "", email |-> "", teacher |-> "", status |-> 0,
     raced |-> [op |-> "none", email |-> ""]]

\* The status the handler raises before its update_one, 0 when it goes on to it.
CheckStatus(op, name, email, t) ==
    IF NotTeacherUsername(t) THEN 401
    ELSE IF ~FindTeacher(t) THEN 401
    ELSE IF ~FindActivity(name) THEN 404
    ELSE IF op = "signup" /\ AlreadySignedUp(email, participants[name]) THEN 400
    ELSE IF op = "unregister" /\ NotRegistered(email, participants[name]) THEN 400
    ELSE 0

\* The handler up to and including find_one and the participant check: it
\* raises 401, 404 or 400, or goes on to its update_one (reply status 0).
Receive(p, op, name, email, t) ==
    /\ pc[p] = "idle"
    /\ LET st == CheckStatus(op, name, email, t)
       IN /\ pc' = [pc EXCEPT ![p] = IF st = 0 THEN "update" ELSE "idle"]
          /\ req' = [req EXCEPT ![p] =
                 IF st = 0
                 THEN [op |-> op, activity |-> name, email |-> email, teacher |-> t]
                 ELSE NoRequest]
          /\ reply' = [op |-> op, activity |-> name, email |-> email, teacher |-> t,
                       status |-> st, raced |-> NoWrite]
    /\ touched' = [touched EXCEPT ![p] = NoWrite]
    /\ UNCHANGED <<participants, lastWrite, expected, annVars, listVars>>

\* The handler's update_one, its modified_count check and its response.
Update(p, after) ==
    /\ pc[p] = "update"
    /\ LET name == req[p].activity
           n == ModifiedCount(participants[name], after)
       IN /\ participants' = [participants EXCEPT ![name] = after]
          /\ reply' = [op |-> req[p].op, activity |-> name, email |-> req[p].email,
                       teacher |-> req[p].teacher,
                       status |-> IF n = 0 THEN 500 ELSE 200,
                       raced |-> touched[p]]
          /\ touched' = [q \in Procs |->
                 IF q = p THEN NoWrite
                 ELSE IF pc[q] = "update" /\ req[q].activity = name /\ n # 0
                 THEN [op |-> req[p].op, email |-> req[p].email]
                 ELSE touched[q]]
          /\ lastWrite' = IF n = 0 THEN lastWrite
                          ELSE [lastWrite EXCEPT ![name] =
                                   [op |-> req[p].op, email |-> req[p].email]]
          /\ expected' = IF n = 0 THEN expected
                         ELSE [expected EXCEPT ![name] =
                                  IF req[p].op = "signup"
                                  THEN @ \cup {req[p].email}
                                  ELSE @ \ {req[p].email}]
    /\ pc' = [pc EXCEPT ![p] = "idle"]
    /\ req' = [req EXCEPT ![p] = NoRequest]
    /\ UNCHANGED <<annVars, listVars>>

SignupReceive(p, name, email, t) == Receive(p, "signup", name, email, t)

SignupUpdate(p) ==
    /\ req[p].op = "signup"
    /\ Update(p, Push(participants[req[p].activity], req[p].email))

UnregisterReceive(p, name, email, t) == Receive(p, "unregister", name, email, t)

UnregisterUpdate(p) ==
    /\ req[p].op = "unregister"
    /\ Update(p, Pull(participants[req[p].activity], req[p].email))

(***************************************************************************)
(* Announcements: values.                                                  *)
(***************************************************************************)
\* A Python str is the sequence of its characters, a character is its code
\* point (ord).  The code points of the ASCII characters written out below:
AsciiCode ==
    "0" :> 48 @@ "1" :> 49 @@ "2" :> 50 @@ "3" :> 51 @@ "4" :> 52 @@
    "5" :> 53 @@ "6" :> 54 @@ "7" :> 55 @@ "8" :> 56 @@ "9" :> 57 @@
    " " :> 32 @@ "-" :> 45 @@ "/" :> 47 @@ ":" :> 58

\* ord(c) of an ASCII character.
Ord(c) == AsciiCode[c]

\* The str whose characters are the ASCII characters cs.
Chars(cs) == [i \in DOMAIN cs |-> Ord(cs[i])]

\* The value that stands for no character.
NoChar == 0 - 1

\* The date samples:
IsoDate == Chars(<<"2","0","9","9","-","0","1","-","0","1">>)      \* "2099-01-01"
LeapDate == Chars(<<"2","0","2","4","-","0","2","-","2","9">>)     \* "2024-02-29"
ShortDate == Chars(<<"2","0","9","9","-","1","-","5">>)            \* "2099-1-5"
SlashDate == Chars(<<"2","0","9","9","/","0","1","/","0","1">>)    \* "2099/01/01"
\* "2099-01-1" and U+0967 DEVANAGARI DIGIT ONE.
WideDate == Chars(<<"2","0","9","9","-","0","1","-","1">>) \o <<2407>>
Feb30Date == Chars(<<"2","0","9","9","-","0","2","-","3","0">>)    \* "2099-02-30"
EmptyStr == <<>>                                                   \* ""
\* None as the value of the optional start_date.
NoDate == <<NoChar>>

\* username is a required body field: the handlers always receive a string.
AnnUsernames == {"mrodriguez", "intruder"}

\* The body fields of a create or update request.
Fields(username, message, expiration_date, start_date) ==
    [username |-> username, message |-> message,
     expiration_date |-> expiration_date, start_date |-> start_date]

\* Request bodies callers send: one without a teacher's username, and a
\* teacher's with every kind of date and an empty message.
RequestBodies ==
    { Fields("intruder", "M", IsoDate, NoDate),
      Fields("mrodriguez", "M", IsoDate, NoDate),
      Fields("mrodriguez", "M", IsoDate, LeapDate),
      Fields("mrodriguez", "M", ShortDate, NoDate),
      Fields("mrodriguez", "M", WideDate, NoDate),
      Fields("mrodriguez", "M", SlashDate, NoDate),
      Fields("mrodriguez", "M", IsoDate, Feb30Date),
      Fields("mrodriguez", "M", EmptyStr, NoDate),
      Fields("mrodriguez", "", IsoDate, NoDate) }

\* An _id value: a Python str or a bson ObjectId (v: its 24-digit hex form,
\* abbreviated to the decimal counter).
StrId(s) == [type |-> "str", v |-> s]
ObjectId(n) == [type |-> "ObjectId", v |-> ToString(n)]

\* str(x) of an _id value: a str stays, an ObjectId becomes its hex str.
Str(id) == [type |-> "str", v |-> id.v]

(***************************************************************************)
(* datetime.strptime(s, "%Y-%m-%d")                                        *)
(***************************************************************************)
\* The characters [0-9] admits: the ASCII digits.
Digits == Ord("0")..Ord("9")

\* The code point of the digit zero of every run of decimal digits (category
\* Nd) of the Unicode database; the digits 0..9 of a run are consecutive.
NdZeros ==
    { 48, 1632, 1776, 1984, 2406, 2534, 2662, 2790,
      2918, 3046, 3174, 3302, 3430, 3558, 3664, 3792,
      3872, 4160, 4240, 6112, 6160, 6470, 6608, 6784,
      6800, 6992, 7088, 7232, 7248, 42528, 43216, 43264,
      43472, 43504, 43600, 44016, 65296, 66720, 68912, 69734,
      69872, 69942, 70096, 70384, 70736, 70864, 71248, 71360,
      71472, 71904, 72016, 72784, 73040, 73120, 92768, 92864,
      93008, 120782, 120792, 120802, 120812, 120822, 123200, 123632,
      125264, 130032 }

\* The characters \d admits in a pattern compiled from a str: every decimal
\* digit, ASCII or not.
DecimalDigits == UNION {z..(z + 9) : z \in NdZeros}

\* int(c) of one decimal digit, whatever its script.
DigitVal(c) == c - (CHOOSE z \in NdZeros : c \in z..(z + 9))

\* int() of the substring s[i..j] of decimal digits, a leading space skipped.
RECURSIVE IntOf(_, _, _)
IntOf(s, i, j) ==
    IF i > j THEN 0
    ELSE IF s[j] = Ord(" ") THEN 0
    ELSE 10 * IntOf(s, i, j - 1) + DigitVal(s[j])

At(s, i) == IF i \in DOMAIN s THEN s[i] ELSE NoChar

\* Length matched at position i by %m: (1[0-2]|0[1-9]|[1-9]); 0: no match.
MonthLen(s, i) ==
    IF At(s, i) = Ord("1") /\ At(s, i + 1) \in Ord("0")..Ord("2") THEN 2
    ELSE IF At(s, i) = Ord("0") /\ At(s, i + 1) \in Ord("1")..Ord("9") THEN 2
    ELSE IF At(s, i) \in Ord("1")..Ord("9") THEN 1
    ELSE 0

\* Length matched at position i by %d: (3[0-1]|[1-2]\d|0[1-9]|[1-9]| [1-9]).
DayLen(s, i) ==
    IF At(s, i) = Ord("3") /\ At(s, i + 1) \in Ord("0")..Ord("1") THEN 2
    ELSE IF At(s, i) \in Ord("1")..Ord("2") /\ At(s, i + 1) \in DecimalDigits THEN 2
    ELSE IF At(s, i) = Ord("0") /\ At(s, i + 1) \in Ord("1")..Ord("9") THEN 2
    ELSE IF At(s, i) \in Ord("1")..Ord("9") THEN 1
    ELSE IF At(s, i) = Ord(" ") /\ At(s, i + 1) \in Ord("1")..Ord("9") THEN 2
    ELSE 0

IsLeap(y) == (y % 4 = 0 /\ y % 100 # 0) \/ y % 400 = 0

DaysInMonth(y, m) ==
    IF m = 2 THEN (IF IsLeap(y) THEN 29 ELSE 28)
    ELSE IF m \in {4, 6, 9, 11} THEN 30
    ELSE 31

\* datetime's own check of the parsed fields (MINYEAR is 1).
ValidDate(y, m, d) == y >= 1 /\ m \in 1..12 /\ d >= 1 /\ d <= DaysInMonth(y, m)

\* TRUE when strptime returns a datetime, FALSE when it raises ValueError:
\* the format's regex (\d\d\d\d)-(%m)-(%d) must match a prefix of s, no
\* character may remain after it, and the fields must make a date.
Strptime(s) ==
    /\ \A i \in 1..4 : At(s, i) \in DecimalDigits
    /\ At(s, 5) = Ord("-")
    /\ MonthLen(s, 6) > 0
    /\ LET ml == MonthLen(s, 6)
       IN /\ At(s, 6 + ml) = Ord("-")
          /\ DayLen(s, 7 + ml) > 0
          /\ LET dl == DayLen(s, 7 + ml)
             IN /\ Len(s) = 6 + ml + dl
                /\ ValidDate(IntOf(s, 1, 4), IntOf(s, 6, 5 + ml),
                             IntOf(s, 7 + ml, 6 + ml + dl))

\* `if start_date:` (None and "" are falsy).
StartGiven(start_date) == start_date \notin {NoDate, EmptyStr}

(***************************************************************************)
(* Announcement handlers.                                                  *)
(***************************************************************************)
\* The try block of create_announcement and update_announcement: TRUE when
\* no ValueError is raised.
DatesParse(expiration_date, start_date) ==
    /\ Strptime(expiration_date)
    /\ StartGiven(start_date) => Strptime(start_date)

\* doc / update_doc: message and expiration_date, start_date only if given.
BuildDoc(message, expiration_date, start_date) ==
    IF StartGiven(start_date)
    THEN [message |-> message, expiration_date |-> expiration_date,
          start_date |-> start_date]
    ELSE [message |-> message, expiration_date |-> expiration_date]

\* d with field k set to v (a field d lacks is added).
WithField(d, k, v) ==
    [f \in DOMAIN d \cup {k} |-> IF f = k THEN v ELSE d[f]]

ReplaceFields(d, update_doc) == WithField(update_doc, "_id", d["_id"])
\* {"$set": update_doc} applied to document d: the fields of update_doc are
\* written, every other field of d stays.
SetFields(d, update_doc) ==
    [f \in DOMAIN d \cup DOMAIN update_doc |->
        IF f \in DOMAIN update_doc THEN update_doc[f] ELSE d[f]]

\* find({"_id": id}) over the collection: equality of value and of type.
Matching(coll, id) == {d \in coll : d["_id"] = id}

\* get_announcements(): every document, its _id passed through str().
get_announcements_body(coll) == {WithField(d, "_id", Str(d["_id"])) : d \in coll}

Request(op, id, username, message, expiration_date, start_date) ==
    [op |-> op, id |-> id, username |-> username, message |-> message,
     expiration_date |-> expiration_date, start_date |-> start_date]

NoBody == [none |-> TRUE]

Response(request, status, body) ==
    [op |-> request.op, request |-> request, status |-> status, body |-> body]

\* Values callers pass as announcement_id: the seeded _id and the str form
\* of every ObjectId the store hands out.
AnnouncementIds == {StrId("welcome")} \cup {Str(ObjectId(n)) : n \in 1..MaxCreates}

\* Number of requests that are inside update_announcement.
RECURSIVE Pending(_, _)
Pending(u, ids) ==
    IF ids = {} THEN 0
    ELSE LET id == CHOOSE x \in ids : TRUE
         IN u[id] + Pending(u, ids \ {id})

\* A worker of the thread pool is free to take a request.
WorkerFree == Pending(updating, AnnouncementIds) < NProcs

get_announcements ==
    /\ WorkerFree
    /\ resp' = Response(Request("list", StrId(""), "", "", EmptyStr, NoDate), 200,
                        get_announcements_body(announcements))
    /\ UNCHANGED <<announcements, nextOid, updating, rosterVars, listVars>>

create_announcement(username, message, expiration_date, start_date) ==
    LET r == Request("create", StrId(""), username, message, expiration_date, start_date)
    IN /\ WorkerFree
       /\ UNCHANGED <<updating, rosterVars, listVars>>
       /\ IF ~is_authenticated(username)
          THEN resp' = Response(r, 401, NoBody) /\ UNCHANGED <<announcements, nextOid>>
          ELSE IF message = "" \/ expiration_date = EmptyStr
          THEN resp' = Response(r, 400, NoBody) /\ UNCHANGED <<announcements, nextOid>>
          ELSE IF ~DatesParse(expiration_date, start_date)
          THEN resp' = Response(r, 400, NoBody) /\ UNCHANGED <<announcements, nextOid>>
          ELSE LET doc == BuildDoc(message, expiration_date, start_date)
                   inserted_id == ObjectId(nextOid)
               IN /\ nextOid <= MaxCreates
                  /\ announcements' = announcements \cup {WithField(doc, "_id", inserted_id)}
                  /\ nextOid' = nextOid + 1
                  /\ resp' = Response(r, 200, WithField(doc, "_id", Str(inserted_id)))

\* update_announcement up to and including its update_one: it raises 401,
\* 400 or 404, or it has written update_doc and goes on to its find_one
\* (status 0); requests of other workers run before that find_one.
update_announcement(announcement_id, username, message, expiration_date, start_date) ==
    LET r == Request("update", announcement_id, username, message, expiration_date,
                     start_date)
    IN /\ WorkerFree
       /\ UNCHANGED <<nextOid, rosterVars, listVars>>
       /\ IF ~is_authenticated(username)
          THEN resp' = Response(r, 401, NoBody) /\ UNCHANGED <<announcements, updating>>
          ELSE IF ~DatesParse(expiration_date, start_date)
          THEN resp' = Response(r, 400, NoBody) /\ UNCHANGED <<announcements, updating>>
          ELSE LET update_doc == BuildDoc(message, expiration_date, start_date)
                   matched == Matching(announcements, announcement_id)
               IN IF matched = {}
                  THEN /\ resp' = Response(r, 404, NoBody)
                       /\ UNCHANGED <<announcements, updating>>
                  ELSE LET d == CHOOSE x \in matched : TRUE
                       IN /\ announcements' =
                               (announcements \ {d}) \cup {SetFields(d, update_doc)}
                          /\ updating' = [updating EXCEPT ![announcement_id] = @ + 1]
                          /\ resp' = Response(r, 0, NoBody)

\* The rest of update_announcement: find_one({"_id": announcement_id}) and the
\* response built from what it returns.  The document is returned as it is
\* stored now; when it is gone find_one returns None and doc["_id"] raises
\* TypeError, which the server answers with 500.  Of the request only
\* announcement_id is still used.
update_announcement_find_one(announcement_id) ==
    LET r == Request("update_find_one", announcement_id, "", "", EmptyStr, NoDate)
        found == Matching(announcements, announcement_id)
    IN /\ updating[announcement_id] > 0
       /\ updating' = [updating EXCEPT ![announcement_id] = @ - 1]
       /\ resp' = IF found = {}
                  THEN Response(r, 500, NoBody)
                  ELSE LET doc == CHOOSE x \in found : TRUE
                       IN Response(r, 200, WithField(doc, "_id", Str(doc["_id"])))
       /\ UNCHANGED <<announcements, nextOid, rosterVars, listVars>>

delete_announcement(announcement_id, username) ==
    LET r == Request("delete", announcement_id, username, "", EmptyStr, NoDate)
    IN /\ WorkerFree
       /\ UNCHANGED <<nextOid, updating, rosterVars, listVars>>
       /\ IF ~is_authenticated(username)
          THEN resp' = Response(r, 401, NoBody) /\ UNCHANGED announcements
          ELSE LET matched == Matching(announcements, announcement_id)
               IN IF matched = {}
                  THEN resp' = Response(r, 404, NoBody) /\ UNCHANGED announcements
                  ELSE /\ announcements' = announcements \ {CHOOSE x \in matched : TRUE}
                       /\ resp' = Response(r, 200,
                              [_id |-> announcement_id, deleted |-> TRUE])

\* Announcements the store may hold when the service starts, their _id a str.
SeededAnnouncements ==
    { [_id |-> StrId("welcome"), message |-> "S", expiration_date |-> IsoDate],
      [_id |-> StrId("welcome"), message |-> "S", expiration_date |-> IsoDate,
       start_date |-> LeapDate] }

NoResponse == Response(Request("none", StrId(""), "", "", EmptyStr, NoDate), 0, NoBody)

InitAnn ==
    /\ participants = [a \in Activities |-> <<>>]
    /\ expected = [a \in Activities |-> {}]
    /\ pc = [p \in Procs |-> "idle"]
    /\ req = [p \in Procs |-> NoRequest]
    /\ reply = NoReply
    /\ touched = [p \in Procs |-> NoWrite]
    /\ lastWrite = [a \in Activities |-> NoWrite]
    /\ catalog = <<>>
    /\ listed = [op |-> "none"]
    /\ announcements \in {{}} \cup {{d} : d \in SeededAnnouncements}
    /\ nextOid = 1
    /\ updating = [id \in AnnouncementIds |-> 0]
    /\ resp = NoResponse

AnnIdle ==
    /\ announcements = {}
    /\ nextOid = 1
    /\ updating = [id \in AnnouncementIds |-> 0]
    /\ resp = NoResponse

(***************************************************************************)
(* list_activities                                                         *)
(***************************************************************************)
\* "HH:MM" strings as character sequences.
T0800 == Chars(<<"0","8",":","0","0">>)
T0900 == Chars(<<"0","9",":","0","0">>)
T0930 == Chars(<<"0","9",":","3","0">>)
T1000 == Chars(<<"1","0",":","0","0">>)
T1100 == Chars(<<"1","1",":","0","0">>)
T1530 == Chars(<<"1","5",":","3","0">>)
T1700 == Chars(<<"1","7",":","0","0">>)
\* None as the value of an optional time parameter.
NoTime == <<NoChar>>

\* Activity documents the store may hold.  The last one has an empty _id and
\* a name field, the name of another document's _id.
ActivitySamples ==
    << [_id |-> "Chess Club", participants |-> <<"amy@mergington.edu">>,
        schedule_details |->
            [days |-> <<"Monday", "Friday">>, start_time |-> T0900, end_time |-> T1000]],
       [_id |-> "Art Club", participants |-> <<>>,
        schedule_details |->
            [days |-> <<"Tuesday">>, start_time |-> T1530, end_time |-> T1700]],
       [_id |-> "Morning Fitness", participants |-> <<>>,
        schedule_details |-> [start_time |-> T0800, end_time |-> T0930]],
       [_id |-> "Yoga", participants |-> <<>>,
        schedule_details |-> [days |-> <<"Monday">>]],
       [_id |-> "Study Hall", participants |-> <<"ben@mergington.edu">>],
       [_id |-> "", name |-> "Chess Club", participants |-> <<>>,
        schedule_details |->
            [days |-> <<"Monday">>, start_time |-> T0900, end_time |-> T0930]] >>

\* The documents of docs whose positions are in I, in the order of docs.
RECURSIVE Select(_, _)
Select(docs, I) ==
    IF docs = <<>> THEN <<>>
    ELSE LET rest == Select(Tail(docs), {i - 1 : i \in I \ {1}})
         IN IF 1 \in I THEN <<Head(docs)>> \o rest ELSE rest

Reverse(s) == [i \in 1..Len(s) |-> s[Len(s) + 1 - i]]

\* What find({}) may return: any of the sample documents, in the order of
\* ActivitySamples or in the opposite one.
Catalogs ==
    UNION {{Select(ActivitySamples, I), Reverse(Select(ActivitySamples, I))} :
              I \in SUBSET DOMAIN ActivitySamples}

Days == {None, "", "Monday", "Tuesday", "monday"}
StartTimes == {NoTime, EmptyStr, T0800, T0900, T0930}
EndTimes == {NoTime, EmptyStr, T0930, T1000, T1100, T1700}

\* a < b on Python str: the first differing character decides, by its code
\* point; a proper prefix is smaller.
RECURSIVE StrLessFrom(_, _, _)
StrLessFrom(a, b, i) ==
    IF i > Len(a) THEN i <= Len(b)
    ELSE IF i > Len(b) THEN FALSE
    ELSE IF a[i] # b[i] THEN a[i] < b[i]
    ELSE StrLessFrom(a, b, i + 1)

StrLess(a, b) == StrLessFrom(a, b, 1)

\* `k in d` for a document or sub-document d.
Has(d, k) == k \in DOMAIN d

\* `not s` of a str (None and "" are falsy).
Falsy(s) == s \in {NoTime, EmptyStr}

\* `if day:` / `if start_time and end_time:`
DayRequested(day) == day \notin {None, ""}
TimeRequested(start_time, end_time) == ~Falsy(start_time) /\ ~Falsy(end_time)

\* The day filter's `continue`: (a.get("schedule_details") or {}).get("days", [])
\* does not contain day.
DaySkips(a, day) ==
    IF ~Has(a, "schedule_details") THEN TRUE
    ELSE IF ~Has(a.schedule_details, "days") THEN TRUE
    ELSE day \notin Range(a.schedule_details.days)

TimeOutsideBoth(s, e, start_time, end_time) ==
    StrLess(s, start_time) /\ StrLess(end_time, e)
\* `s < start_time or e > end_time`
TimeOutside(s, e, start_time, end_time) ==
    StrLess(s, start_time) \/ StrLess(end_time, e)

\* The time filter's three `continue`s.
TimeSkips(a, start_time, end_time) ==
    IF ~Has(a, "schedule_details") THEN TRUE
    ELSE LET sd == a.schedule_details
         IN IF ~Has(sd, "start_time") \/ ~Has(sd, "end_time") THEN TRUE
            ELSE IF Falsy(sd.start_time) \/ Falsy(sd.end_time) THEN TRUE
            ELSE TimeOutside(sd.start_time, sd.end_time, start_time, end_time)

\* name: a.get("_id") or a.get("name"), the name field standing in for an
\* _id that is missing or falsy.
Name(a) ==
    IF Has(a, "_id") /\ a["_id"] # "" THEN a["_id"]
    ELSE IF Has(a, "name") THEN a.name
    ELSE None

\* details: the document without its _id.
Details(a) == [k \in DOMAIN a \ {"_id"} |-> a[k]]

\* The results dict the loop over the cursor builds: results[name] = details
\* for every document the filters keep, in cursor order, so that of two kept
\* documents with one name the later one stays.
ListResults(coll, day, start_time, end_time) ==
    LET kept == {i \in DOMAIN coll :
                    /\ ~(DayRequested(day) /\ DaySkips(coll[i], day))
                    /\ ~(TimeRequested(start_time, end_time)
                           /\ TimeSkips(coll[i], start_time, end_time))}
        last(name) == CHOOSE i \in kept :
                          /\ Name(coll[i]) = name
                          /\ \A j \in kept : Name(coll[j]) = name => j <= i
    IN [name \in {Name(coll[i]) : i \in kept} |-> Details(coll[last(name)])]

list_activities(day, start_time, end_time) ==
    /\ listed' = [op |-> "list", day |-> day, start_time |-> start_time,
                  end_time |-> end_time,
                  results |-> ListResults(catalog, day, start_time, end_time)]
    /\ UNCHANGED <<catalog, rosterVars, annVars>>

InitList ==
    /\ participants = [a \in Activities |-> <<>>]
    /\ expected = [a \in Activities |-> {}]
    /\ pc = [p \in Procs |-> "idle"]
    /\ req = [p \in Procs |-> NoRequest]
    /\ reply = NoReply
    /\ touched = [p \in Procs |-> NoWrite]
    /\ lastWrite = [a \in Activities |-> NoWrite]
    /\ announcements = {}
    /\ nextOid = 1
    /\ updating = [id \in AnnouncementIds |-> 0]
    /\ resp = NoResponse
    /\ catalog \in Catalogs
    /\ listed = [op |-> "none"]

NextList ==
    \E day \in Days, start_time \in StartTimes, end_time \in EndTimes :
        list_activities(day, start_time, end_time)

\* list_activities queries over a stored set of activities.
SpecList == InitList /\ [][NextList]_vars

ListIdle ==
    /\ catalog = <<>>
    /\ listed = [op |-> "none"]

InitRoster ==
    /\ participants \in [Activities -> InitialRosters]
    /\ expected = [a \in Activities |-> Range(participants[a])]
    /\ pc = [p \in Procs |-> "idle"]
    /\ req = [p \in Procs |-> NoRequest]
    /\ reply = NoReply
    /\ touched = [p \in Procs |-> NoWrite]
    /\ lastWrite = [a \in Activities |-> NoWrite]

Init == InitRoster /\ AnnIdle /\ ListIdle

signup_for_activity ==
    \/ \E p \in Procs, name \in ActivityNames, email \in Emails, t \in Usernames :
           SignupReceive(p, name, email, t)
    \/ \E p \in Procs : SignupUpdate(p)

unregister_from_activity ==
    \/ \E p \in Procs, name \in ActivityNames, email \in Emails, t \in Usernames :
           UnregisterReceive(p, name, email, t)
    \/ \E p \in Procs : UnregisterUpdate(p)

Next == signup_for_activity \/ unregister_from_activity

\* Concurrent signup and unregister requests against the activity roster.
Spec == Init /\ [][Next]_vars

NextAnn ==
    \/ get_announcements
    \/ \E b \in RequestBodies :
           create_announcement(b.username, b.message, b.expiration_date, b.start_date)
    \/ \E announcement_id \in AnnouncementIds, b \in RequestBodies :
           update_announcement(announcement_id, b.username, b.message,
                               b.expiration_date, b.start_date)
    \/ \E announcement_id \in AnnouncementIds :
           update_announcement_find_one(announcement_id)
    \/ \E announcement_id \in AnnouncementIds, username \in AnnUsernames :
           delete_announcement(announcement_id, username)

\* Announcement requests handled by NProcs workers: every handler is one
\* store operation except update_announcement, which is two.
SpecAnn == InitAnn /\ [][NextAnn]_vars

(***************************************************************************)
(* Properties of the activity roster.                                      *)
(***************************************************************************)
\* A step that received a request: it raised 401, 404 or 400, or went on to
\* the request's update_one (status 0); reply' holds the request.
Received == reply'.status \in {0, 400, 401, 404}

\* C1: in every reachable state no activity's participants list holds the
\* same email twice.
NoDuplicateParticipants ==
    \A a \in Activities :
        \A i, j \in DOMAIN participants[a] :
            i # j => participants[a][i] # participants[a][j]

\* C2: when the last modification of activity A was a successful
\* signup(A, e), a further signup(A, e, t) by an existing teacher t returns
\* 400 and changes no document.
SecondSignupRejected ==
    [][(/\ Received
        /\ reply'.op = "signup"
        /\ reply'.teacher \in Teachers
        /\ reply'.activity \in Activities
        /\ lastWrite[reply'.activity] = [op |-> "signup", email |-> reply'.email])
       => (/\ reply'.status = 400
           /\ participants' = participants
           /\ announcements' = announcements
           /\ catalog' = catalog)]_vars

SecondSignupRejectedWitness ==
    /\ reply.op = "signup"
    /\ reply.status = 400
    /\ lastWrite[reply.activity] = [op |-> "signup", email |-> reply.email]

\* C3: unregister(A, e, t) for an existing activity A, an existing teacher t
\* and an email e that is not among A's participants returns 400 and changes
\* no document.
UnregisterNonParticipantRejected ==
    [][(/\ Received
        /\ reply'.op = "unregister"
        /\ reply'.teacher \in Teachers
        /\ reply'.activity \in Activities
        /\ reply'.email \notin Range(participants[reply'.activity]))
       => (/\ reply'.status = 400
           /\ participants' = participants
           /\ announcements' = announcements
           /\ catalog' = catalog)]_vars

UnregisterNonParticipantWitness ==
    /\ reply.op = "unregister"
    /\ reply.status = 400
    /\ reply.teacher \in Teachers
    /\ reply.email \notin Range(participants[reply.activity])

\* C8: no signup is lost: in every interleaving each activity's participants
\* are exactly the initial emails plus those signed up minus those
\* unregistered, and a signup that passed its checks never fails.
NoLostUpdate ==
    /\ \A a \in Activities : Range(participants[a]) = expected[a]
    /\ reply.op = "signup" => reply.status # 500

\* Two signups for different emails overlapped on one activity and both
\* completed.
NoLostUpdateWitness ==
    /\ reply.op = "signup"
    /\ reply.status = 200
    /\ reply.raced.op = "signup"
    /\ reply.raced.email # reply.email
    /\ {reply.email, reply.raced.email} \subseteq Range(participants[reply.activity])

\* C10: a signup or unregister that passed its checks returns 500 only if
\* another request modified the same activity after its find_one, and then
\* it changes no document; with no such modification (in particular when
\* requests run one at a time) it modifies the activity and returns 200.
ServerErrorOnlyWhenRaced ==
    [][\A p \in Procs :
          (pc[p] = "update" /\ pc'[p] = "idle")
          => /\ reply'.status \in {200, 500}
             /\ reply'.status = 500
                  => (/\ touched[p] # NoWrite
                      /\ participants' = participants
                      /\ announcements' = announcements
                      /\ catalog' = catalog)
             /\ touched[p] = NoWrite
                  => (reply'.status = 200 /\ participants' # participants)]_vars

ServerErrorWitness ==
    /\ reply.status = 500
    /\ reply.op = "unregister"
    /\ reply.raced = [op |-> "unregister", email |-> reply.email]

(***************************************************************************)
(* Properties of the announcement handlers.                                *)
(***************************************************************************)
\* A valid date written YYYY-MM-DD: four, two and two digits, dash separated.
StrictYMD(s) ==
    /\ Len(s) = 10
    /\ \A i \in {1, 2, 3, 4, 6, 7, 9, 10} : s[i] \in Digits
    /\ s[5] = Ord("-") /\ s[8] = Ord("-")
    /\ ValidDate(IntOf(s, 1, 4), IntOf(s, 6, 7), IntOf(s, 9, 10))

\* expiration_date, and start_date when one is supplied, are valid YYYY-MM-DD.
StrictDates(expiration_date, start_date) ==
    /\ StrictYMD(expiration_date)
    /\ start_date # NoDate => StrictYMD(start_date)

\* The identity id is one a list of the collection shows.
Listed(coll, id) == \E d \in get_announcements_body(coll) : d["_id"] = id

\* C4: create, update and delete return 401 and change no document when the
\* username matches no teacher record; with a teacher's username and otherwise
\* valid input (for update and delete: the identity of a listed announcement)
\* they succeed: create and delete return 200, update passes its update_one
\* and its response, once built, is 200.
AuthGated ==
    [][/\ resp'.op = "update_find_one" => resp'.status = 200
       /\ resp'.op \in {"create", "update", "delete"}
       => /\ resp'.request.username \notin Teachers
               => (/\ resp'.status = 401
                   /\ announcements' = announcements
                   /\ participants' = participants)
          /\ (/\ resp'.request.username \in Teachers
              /\ resp'.op = "create"
                   => (/\ resp'.request.message # ""
                       /\ StrictDates(resp'.request.expiration_date,
                                      resp'.request.start_date))
              /\ resp'.op = "update"
                   => (/\ Listed(announcements, resp'.request.id)
                       /\ resp'.request.message # ""
                       /\ StrictDates(resp'.request.expiration_date,
                                      resp'.request.start_date))
              /\ resp'.op = "delete" => Listed(announcements, resp'.request.id))
               => resp'.status = (IF resp'.op = "update" THEN 0 ELSE 200)]_vars

\* C5: a created announcement is listed under the non-empty identity create
\* returned; update and delete addressed to a listed identity by a teacher do
\* not return 404; a deleted announcement is no longer listed; delete of an
\* identity that is not listed returns 404.
RoundTrip ==
    [][/\ (resp'.op = "create" /\ resp'.status = 200)
            => (/\ resp'.body["_id"].v # ""
                /\ Listed(announcements', resp'.body["_id"]))
       /\ (/\ resp'.op \in {"update", "delete"}
           /\ resp'.request.username \in Teachers
           /\ Listed(announcements, resp'.request.id))
            => resp'.status # 404
       /\ (resp'.op = "delete" /\ resp'.status = 200)
            => ~Listed(announcements', resp'.request.id)
       /\ (/\ resp'.op = "delete"
           /\ resp'.request.username \in Teachers
           /\ ~Listed(announcements, resp'.request.id))
            => resp'.status = 404]_vars

\* The document the claim expects a successful update r of document d to leave.
UpdatedAsClaimed(d, r) ==
    [f \in DOMAIN d \cup (IF StartGiven(r.start_date) THEN {"start_date"} ELSE {}) |->
        CASE f = "message" -> r.message
          [] f = "expiration_date" -> r.expiration_date
          [] f = "start_date" /\ StartGiven(r.start_date) -> r.start_date
          [] OTHER -> d[f]]

\* C6: an update(id, ...) that passes its checks replaces, in its update_one
\* (status 0), the announcement whose _id is id by itself with message and
\* expiration_date overwritten, start_date overwritten when supplied and
\* kept as it was when omitted; every other announcement and every activity
\* is unchanged; the rest of the request, which builds the response, changes
\* no document.  An update that returns 404 changes nothing.
UpdateChangesOnlyItsFields ==
    [][/\ resp'.op = "update_find_one"
            => (/\ announcements' = announcements
                /\ participants' = participants
                /\ catalog' = catalog)
       /\ resp'.op = "update"
       => /\ resp'.status = 0
               => /\ \E d \in announcements :
                       /\ d["_id"] = resp'.request.id
                       /\ announcements' =
                            (announcements \ {d}) \cup {UpdatedAsClaimed(d, resp'.request)}
                  /\ participants' = participants
                  /\ catalog' = catalog
          /\ resp'.status = 404
               => (/\ announcements' = announcements
                   /\ participants' = participants
                   /\ catalog' = catalog)]_vars

\* An update without start_date has written an announcement that has one,
\* while another announcement is stored.
UpdateKeepsStartDateWitness ==
    /\ resp.op = "update"
    /\ resp.status = 0
    /\ resp.request.start_date = NoDate
    /\ \E d \in announcements :
           /\ d["_id"] = resp.request.id
           /\ d.message = "M"
           /\ "start_date" \in DOMAIN d
    /\ Cardinality(announcements) = 2

\* C7: create and update by a teacher return 400 and leave the collection
\* unchanged when expiration_date or a supplied start_date is not a valid
\* YYYY-MM-DD date, and every stored announcement's dates are valid
\* YYYY-MM-DD dates.
DatesValidated ==
    [][/\ (/\ resp'.op \in {"create", "update"}
           /\ resp'.request.username \in Teachers
           /\ ~StrictDates(resp'.request.expiration_date, resp'.request.start_date))
            => (resp'.status = 400 /\ announcements' = announcements)
       /\ \A d \in announcements' :
            /\ StrictYMD(d.expiration_date)
            /\ "start_date" \in DOMAIN d => StrictYMD(d.start_date)]_vars

(***************************************************************************)
(* Properties of list_activities.                                          *)
(***************************************************************************)
\* Minutes since midnight of a zero-padded "HH:MM" string.
Minutes(t) ==
    (10 * DigitVal(t[1]) + DigitVal(t[2])) * 60 + 10 * DigitVal(t[4]) + DigitVal(t[5])

TimeSamples == {T0800, T0900, T0930, T1000, T1100, T1530, T1700}

HasSchedule(a) == "schedule_details" \in DOMAIN a

\* The activity passes the filters the query makes active, as the claim
\* states them.
PassesAsClaimed(a, day, start_time, end_time) ==
    /\ day \notin {None, ""}
         => /\ HasSchedule(a)
            /\ "days" \in DOMAIN a.schedule_details
            /\ \E i \in DOMAIN a.schedule_details.days : a.schedule_details.days[i] = day
    /\ (start_time \in TimeSamples /\ end_time \in TimeSamples)
         => /\ HasSchedule(a)
            /\ {"start_time", "end_time"} \subseteq DOMAIN a.schedule_details
            /\ Minutes(a.schedule_details.start_time) >= Minutes(start_time)
            /\ Minutes(a.schedule_details.end_time) <= Minutes(end_time)

\* The stored activities have the unique names the data model gives them.
UniqueNames ==
    \A i, j \in DOMAIN catalog : i # j => Name(catalog[i]) # Name(catalog[j])

\* C9: over activities with unique names, list_activities returns exactly
\* the activities that pass every active filter (day: the schedule's days
\* contain it; both times: the schedule has both times and lies within the
\* requested range by minutes since midnight; one time only: no time
\* filter), each once with its details; and the string comparison agrees
\* with the minutes comparison on HH:MM values.
ListReturnsExactlyPassing ==
    /\ (listed.op = "list" /\ UniqueNames)
         => LET passing == {i \in DOMAIN catalog :
                    PassesAsClaimed(catalog[i], listed.day, listed.start_time,
                                    listed.end_time)}
                returned == {listed.results[n] : n \in DOMAIN listed.results}
            IN /\ returned =
                    {[k \in DOMAIN catalog[i] \ {"_id"} |-> catalog[i][k]] : i \in passing}
               /\ Cardinality(DOMAIN listed.results) = Cardinality(passing)
    /\ \A t, u \in TimeSamples : StrLess(t, u) <=> Minutes(t) < Minutes(u)

\* A query with a day and a time range, over activities with unique names,
\* kept two of them, one listed under its name field, and dropped others,
\* one of them for having no schedule_details.
ListFilterWitness ==
    /\ listed.op = "list"
    /\ UniqueNames
    /\ listed.day = "Monday"
    /\ listed.start_time = T0800 /\ listed.end_time = T1000
    /\ DOMAIN listed.results = {"Chess Club"}
    /\ "name" \in DOMAIN listed.results["Chess Club"]
    /\ \E i \in DOMAIN catalog : ~HasSchedule(catalog[i])
    /\ \E i \in DOMAIN catalog : Name(catalog[i]) = "Morning Fitness"
    /\ Len(catalog) >= 3

====
